---- MODULE Spec2Model ----
(***************************************************************************)
(* Model of the API normalization passes of CppData (src/src/cpp_data.rs)  *)
(* and of the signal/slot classifier                                       *)
(* (src/qt_generator/qt_generator/src/detect_signals_and_slots.rs).        *)
(*                                                                         *)
(* Rust values are modelled structurally:                                  *)
(*   Option<T>   a sequence of length 0 (None) or 1 (Some(x))              *)
(*   Vec<T>      a sequence                                                *)
(*   Result<T,E> a record [ok, value]                                      *)
(*   struct      a record with the struct's field names                    *)
(***************************************************************************)
EXTENDS Integers, Sequences, FiniteSets, TLC

\* ------------------------------------------------------------------ bounds

\* Most methods the parser puts into one database.
MaxParserMethods == 2
\* Most parameters of a parsed method in the default-argument inputs.
MaxArity == 3
\* Most registered instantiations of one template class.
MaxInstantiations == 2
\* Most top-level calls (a public pass or post_process) made on one database.
MaxCalls == 1
\* Most lines of a header in the inputs that enumerate header texts.
MaxLines == 3
\* Most runs of post_process on one database when it is run repeatedly.
MaxRuns == 2

\* ------------------------------------------------------------ Rust values

None == <<>>

Some(x) == <<x>>

is_some(o) == Len(o) = 1

unwrap(o) == o[1]

Ok(x) == [ok |-> TRUE, value |-> x]

Err(x) == [ok |-> FALSE, value |-> x]

Range(s) == {s[i] : i \in DOMAIN s}

\* ---------------------------------------------------------------- CppType

\* CppTypeBase: one record shape for the variants the passes distinguish.
BuiltInBase(n) ==
  [kind |-> "BuiltIn", name |-> n, nested_level |-> 0, index |-> 0,
   template_arguments |-> None]

TemplateParameterBase(level, idx) ==
  [kind |-> "TemplateParameter", name |-> "", nested_level |-> level,
   index |-> idx, template_arguments |-> None]

\* CppTypeBase::Class(CppTypeClassBase { name, template_arguments })
ClassBase(cb) ==
  [kind |-> "Class", name |-> cb.name, nested_level |-> 0, index |-> 0,
   template_arguments |-> cb.template_arguments]

CppTypeClassBase(n, targs) == [name |-> n, template_arguments |-> targs]

CppType(b, ind, c) == [base |-> b, indirection |-> ind, is_const |-> c]

Value(b) == CppType(b, "None", FALSE)

void == Value(BuiltInBase("void"))

int == Value(BuiltInBase("int"))

bool == Value(BuiltInBase("bool"))

\* The template parameter `index` of nesting level `level`, by value.
T(level, idx) == Value(TemplateParameterBase(level, idx))

ClassType(n, targs) == Value(ClassBase(CppTypeClassBase(n, targs)))

is_template_parameter(b) == b.kind = "TemplateParameter"

RECURSIVE is_or_contains_template_parameter(_)
is_or_contains_template_parameter(b) ==
  CASE b.kind = "TemplateParameter" -> TRUE
    [] b.kind = "Class" ->
         /\ is_some(b.template_arguments)
         /\ \E i \in DOMAIN unwrap(b.template_arguments) :
              is_or_contains_template_parameter(unwrap(b.template_arguments)[i].base)
    [] OTHER -> FALSE

\* ------------------------------------------------------------ CppTypeData

\* CppTypeKind::Class { bases, template_arguments, .. }: bases is a Vec of
\* CppType, template_arguments the Option<Vec<String>> of declared names.
ClassData(n, bs, tparams, file) ==
  [name |-> n, kind |-> "Class", bases |-> bs, template_arguments |-> tparams,
   include_file |-> file]

EnumData(n, file) ==
  [name |-> n, kind |-> "Enum", bases |-> <<>>, template_arguments |-> None,
   include_file |-> file]

is_class(t) == t.kind = "Class"

default_template_parameters(t) ==
  IF is_class(t) /\ is_some(t.template_arguments)
  THEN Some([num \in DOMAIN unwrap(t.template_arguments) |-> T(0, num - 1)])
  ELSE None

\* Panics ("not a class") on a non-class type; every caller below passes a
\* class, so the operator is only defined there.
default_class_type(t) == CppTypeClassBase(t.name, default_template_parameters(t))

\* self.types.iter().find(|t| &t.name == name)
find_type(ts, n) ==
  LET hits == {i \in DOMAIN ts : ts[i].name = n}
  IN  IF hits = {} THEN None
      ELSE Some(ts[CHOOSE i \in hits : \A j \in hits : i <= j])

\* --------------------------------------------------------------- CppMethod

CppMethodClassMembership(ct, k, virt, pure) ==
  [class_type |-> ct, kind |-> k, is_virtual |-> virt, is_pure_virtual |-> pure,
   is_const |-> FALSE, is_static |-> FALSE, visibility |-> "Public",
   is_signal |-> FALSE]

CppFunctionArgument(n, ty, dflt) ==
  [name |-> n, argument_type |-> ty, has_default_value |-> dflt]

Assignment == [kind |-> "Assignment", cpp_type |-> void]

Conversion(ty) == [kind |-> "Conversion", cpp_type |-> ty]

CppOriginLocation(file, ln) == [include_file_path |-> file, line |-> ln]

CppMethod(n, membership, op, ret, args, file, origin) ==
  [name |-> n, class_membership |-> membership, operator |-> op,
   return_type |-> ret, arguments |-> args, allows_variadic_arguments |-> FALSE,
   include_file |-> file, origin_location |-> origin,
   template_arguments |-> None]

is_constructor(m) ==
  is_some(m.class_membership) /\ unwrap(m.class_membership).kind = "Constructor"

is_destructor(m) ==
  is_some(m.class_membership) /\ unwrap(m.class_membership).kind = "Destructor"

\* Option<&String>: the name of the owning class.
class_name(m) ==
  IF is_some(m.class_membership)
  THEN Some(unwrap(m.class_membership).class_type.name)
  ELSE None

argument_types_equal(m1, m2) ==
  /\ Len(m1.arguments) = Len(m2.arguments)
  /\ \A i \in DOMAIN m1.arguments :
       m1.arguments[i].argument_type = m2.arguments[i].argument_type

\* The types a method involves: the class-membership type (as a pointer to
\* the class), the parameter types, the return type, a conversion
\* operator's target.
all_involved_types(m) ==
  (IF is_some(m.class_membership)
   THEN <<CppType(ClassBase(unwrap(m.class_membership).class_type), "Ptr",
                  unwrap(m.class_membership).is_const)>>
   ELSE <<>>)
  \o [i \in DOMAIN m.arguments |-> m.arguments[i].argument_type]
  \o <<m.return_type>>
  \o (IF is_some(m.operator) /\ unwrap(m.operator).kind = "Conversion"
      THEN <<unwrap(m.operator).cpp_type>>
      ELSE <<>>)

\* Concatenation of a sequence of sequences, in order.
RECURSIVE Flatten(_)
Flatten(ss) == IF ss = <<>> THEN <<>> ELSE Head(ss) \o Flatten(Tail(ss))

\* ------------------------------------------------- CppData: destructors

\* The first destructor of class cn in the method list, if any.
own_destructor(ms, cn) ==
  LET hits == {i \in DOMAIN ms : is_destructor(ms[i]) /\ class_name(ms[i]) = Some(cn)}
  IN  IF hits = {} THEN None
      ELSE Some(ms[CHOOSE i \in hits : \A j \in hits : i <= j])

\* Class bases of a type record: the names of the bases that are classes.
class_bases(t) ==
  SelectSeq(t.bases, LAMBDA b : b.base.kind = "Class")

\* Variant: the bases are consulted also when the class has a destructor of
\* its own that is not virtual.
RECURSIVE has_virtual_destructor_or_inherited(_, _, _)
has_virtual_destructor_or_inherited(ms, ts, cn) ==
  \/ /\ is_some(own_destructor(ms, cn))
     /\ unwrap(unwrap(own_destructor(ms, cn)).class_membership).is_virtual
  \/ /\ is_some(find_type(ts, cn))
     /\ is_class(unwrap(find_type(ts, cn)))
     /\ \E i \in DOMAIN class_bases(unwrap(find_type(ts, cn))) :
          has_virtual_destructor_or_inherited(
            ms, ts, class_bases(unwrap(find_type(ts, cn)))[i].base.name)

RECURSIVE has_virtual_destructor(_, _, _)
has_virtual_destructor(ms, ts, cn) ==
  IF is_some(own_destructor(ms, cn))
  THEN unwrap(unwrap(own_destructor(ms, cn)).class_membership).is_virtual
  ELSE /\ is_some(find_type(ts, cn))
       /\ is_class(unwrap(find_type(ts, cn)))
       /\ \E i \in DOMAIN class_bases(unwrap(find_type(ts, cn))) :
            has_virtual_destructor(ms, ts, class_bases(unwrap(find_type(ts, cn)))[i].base.name)

\* Variant: the synthesized destructor is never virtual.
synthesized_destructor_never_virtual(type1, is_virtual) ==
  CppMethod("~" \o type1.name,
            Some(CppMethodClassMembership(default_class_type(type1), "Destructor",
                                          FALSE, FALSE)),
            None, void, <<>>, type1.include_file, None)

\* The CppMethod pushed for a class without destructor.
synthesized_destructor(type1, is_virtual) ==
  CppMethod("~" \o type1.name,
            Some(CppMethodClassMembership(default_class_type(type1), "Destructor",
                                          is_virtual, FALSE)),
            None, void, <<>>, type1.include_file, None)

\* The loop over self.types from position i on; ms is self.methods so far.
RECURSIVE ensure_explicit_destructors_from(_, _, _)
ensure_explicit_destructors_from(ts, i, ms) ==
  IF i > Len(ts) THEN ms
  ELSE IF is_class(ts[i]) /\ ~is_some(own_destructor(ms, ts[i].name))
       THEN ensure_explicit_destructors_from(ts, i + 1,
              Append(ms, synthesized_destructor(ts[i],
                           has_virtual_destructor(ms, ts, ts[i].name))))
       ELSE ensure_explicit_destructors_from(ts, i + 1, ms)

ensure_explicit_destructors(ts, ms) == ensure_explicit_destructors_from(ts, 1, ms)

\* ------------------------------------------- CppData: default arguments

last_has_default_value(m) ==
  Len(m.arguments) > 0 /\ m.arguments[Len(m.arguments)].has_default_value

\* Variant: only the last argument is dropped, once.
omitted_args_copies_once(method_copy) ==
  IF last_has_default_value(method_copy)
  THEN <<[method_copy EXCEPT !.arguments = SubSeq(@, 1, Len(@) - 1)]>>
  ELSE <<>>

\* The while loop: pop the last argument and push the copy, while the last
\* argument has a default value.
RECURSIVE omitted_args_copies(_)
omitted_args_copies(method_copy) ==
  IF last_has_default_value(method_copy)
  THEN LET popped == [method_copy EXCEPT
                        !.arguments = SubSeq(@, 1, Len(@) - 1)]
       IN  <<popped>> \o omitted_args_copies(popped)
  ELSE <<>>

\* Variant: a copy equal to a method already in the list is not pushed.
generate_methods_with_omitted_args_skipping_present(ms) ==
  ms \o Flatten([i \in DOMAIN ms |->
                   IF last_has_default_value(ms[i])
                   THEN SelectSeq(omitted_args_copies(ms[i]),
                                  LAMBDA c : \A j \in DOMAIN ms : ms[j] /= c)
                   ELSE <<>>])

\* Variant: the arguments are popped from the method itself, not from a
\* copy of it.
generate_methods_with_omitted_args_in_place(ms) ==
  [i \in DOMAIN ms |->
     IF last_has_default_value(ms[i])
     THEN omitted_args_copies(ms[i])[Len(omitted_args_copies(ms[i]))]
     ELSE ms[i]]
  \o Flatten([i \in DOMAIN ms |->
                 IF last_has_default_value(ms[i])
                 THEN omitted_args_copies(ms[i])
                 ELSE <<>>])

generate_methods_with_omitted_args(ms) ==
  ms \o Flatten([i \in DOMAIN ms |->
                   IF last_has_default_value(ms[i])
                   THEN omitted_args_copies(ms[i])
                   ELSE <<>>])

\* ----------------------------------------------- CppData: inheritance

\* The (type1, base) pairs the two nested loops visit for base_name, in
\* loop order: every class base of every class type whose name is base_name.
derivations(ts, base_name) ==
  Flatten([i \in DOMAIN ts |->
    IF is_class(ts[i])
    THEN LET hits == SelectSeq(class_bases(ts[i]),
                               LAMBDA b : b.base.name = base_name)
         IN  [j \in DOMAIN hits |->
                [type1 |-> ts[i],
                 base_template_arguments |-> hits[j].base.template_arguments]]
    ELSE <<>>])

\* The filter that collects base_methods.
is_inheritable(m, base_name, base_template_arguments) ==
  /\ is_some(m.class_membership)
  /\ unwrap(m.class_membership).class_type.name = base_name
  /\ unwrap(m.class_membership).class_type.template_arguments = base_template_arguments
  /\ unwrap(m.class_membership).kind /= "Constructor"
  /\ unwrap(m.class_membership).kind /= "Destructor"
  /\ m.operator /= Some(Assignment)

\* Variant: a base method is hidden only by a derived method of the same
\* name and the same argument types.
not_overridden_by_signature(ms, derived_name, base_class_method) ==
  ~\E i \in DOMAIN ms :
     /\ class_name(ms[i]) = Some(derived_name)
     /\ ms[i].name = base_class_method.name
     /\ argument_types_equal(ms[i], base_class_method)

\* ok: no method of self.methods belongs to the derived class and has the
\* base method's name.
not_overridden(ms, derived_name, base_class_method) ==
  ~\E i \in DOMAIN ms :
     class_name(ms[i]) = Some(derived_name) /\ ms[i].name = base_class_method.name

inherited_copy(base_class_method, type1) ==
  [base_class_method EXCEPT
     !.class_membership = Some([unwrap(@) EXCEPT !.class_type = default_class_type(type1)]),
     !.include_file = type1.include_file,
     !.origin_location = None]

\* new_methods of one call: for every derivation, the copies of the base
\* methods that pass the name check against self.methods.
new_inherited_methods(ts, ms, base_name) ==
  LET ds == derivations(ts, base_name)
  IN  Flatten([d \in DOMAIN ds |->
        LET base_methods ==
              SelectSeq(ms, LAMBDA m :
                is_inheritable(m, base_name, ds[d].base_template_arguments))
            kept == SelectSeq(base_methods, LAMBDA m :
                      not_overridden(ms, ds[d].type1.name, m))
        IN  [k \in DOMAIN kept |-> inherited_copy(kept[k], ds[d].type1)]])

\* Variant: the derived classes that received methods are not visited in
\* turn.
add_inherited_methods_from_without_recursion(ts, ms, base_name) ==
  ms \o new_inherited_methods(ts, ms, base_name)

RECURSIVE add_inherited_methods_from(_, _, _)
RECURSIVE add_inherited_methods_from_each(_, _, _)
add_inherited_methods_from(ts, ms, base_name) ==
  LET ds == derivations(ts, base_name)
      derived_types == [d \in DOMAIN ds |-> ds[d].type1.name]
  IN  add_inherited_methods_from_each(ts, ms \o new_inherited_methods(ts, ms, base_name),
                                      derived_types)

\* for name in names { self.add_inherited_methods_from(&name) }
add_inherited_methods_from_each(ts, ms, names) ==
  IF names = <<>> THEN ms
  ELSE add_inherited_methods_from_each(
         ts, add_inherited_methods_from(ts, ms, Head(names)), Tail(names))

add_inherited_methods(ts, ms) ==
  add_inherited_methods_from_each(ts, ms, [i \in DOMAIN ts |-> ts[i].name])

\* -------------------------------------------------- CppData: templates

\* CppType::instantiate / CppTypeClassBase::instantiate_class: every
\* template parameter of nesting level nested_level1 is replaced by the
\* instantiation's argument of its index (an error when there is none);
\* parameters of other levels and all other types are kept.
RECURSIVE instantiate(_, _, _)
instantiate_class(cb, nested_level1, template_arguments1) ==
  IF is_some(cb.template_arguments)
  THEN LET rs == [i \in DOMAIN unwrap(cb.template_arguments) |->
                    instantiate(unwrap(cb.template_arguments)[i], nested_level1,
                                template_arguments1)]
       IN  IF \E i \in DOMAIN rs : ~rs[i].ok
           THEN Err("instantiate_class")
           ELSE Ok(CppTypeClassBase(cb.name, Some([i \in DOMAIN rs |-> rs[i].value])))
  ELSE Ok(cb)

instantiate(ty, nested_level1, template_arguments1) ==
  CASE ty.base.kind = "TemplateParameter" ->
         IF ty.base.nested_level = nested_level1
         THEN IF ty.base.index + 1 > Len(template_arguments1)
              THEN Err("not enough template arguments")
              ELSE Ok(template_arguments1[ty.base.index + 1])
         ELSE Ok(ty)
    [] ty.base.kind = "Class" ->
         LET r == instantiate_class(
                    CppTypeClassBase(ty.base.name, ty.base.template_arguments),
                    nested_level1, template_arguments1)
         IN  IF r.ok THEN Ok([ty EXCEPT !.base = ClassBase(r.value)]) ELSE r
    [] OTHER -> Ok(ty)

\* CppType::to_cpp_code(None) of a type without template parameters.
RECURSIVE to_cpp_code(_)
RECURSIVE to_cpp_code_list(_)
to_cpp_code(ty) ==
  IF ty.base.kind = "Class" /\ is_some(ty.base.template_arguments)
  THEN ty.base.name \o "<" \o to_cpp_code_list(unwrap(ty.base.template_arguments)) \o ">"
  ELSE ty.base.name

to_cpp_code_list(tys) ==
  IF tys = <<>> THEN ""
  ELSE IF Len(tys) = 1 THEN to_cpp_code(tys[1])
  ELSE to_cpp_code(tys[1]) \o ", " \o to_cpp_code_list(Tail(tys))

has_remaining_template_parameters(m) ==
  \E i \in DOMAIN all_involved_types(m) :
    is_or_contains_template_parameter(all_involved_types(m)[i].base)

\* The body of the loop over the instantiations, for one of them: the new
\* method, or the error that ends the whole function.
instantiated_method(method, nested_level, ins) ==
  LET args == [i \in DOMAIN method.arguments |->
                 instantiate(method.arguments[i].argument_type, nested_level,
                             ins.template_arguments)]
      ret == instantiate(method.return_type, nested_level, ins.template_arguments)
      cls == IF is_some(method.class_membership)
             THEN instantiate_class(unwrap(method.class_membership).class_type,
                                    nested_level, ins.template_arguments)
             ELSE Ok(None)
      is_conversion == is_some(method.operator) /\ unwrap(method.operator).kind = "Conversion"
      conv == IF is_conversion
              THEN instantiate(unwrap(method.operator).cpp_type, nested_level,
                               ins.template_arguments)
              ELSE Ok(None)
  IN  IF (\E i \in DOMAIN args : ~args[i].ok) \/ ~ret.ok \/ ~cls.ok \/ ~conv.ok
      THEN Err("instantiate")
      ELSE LET new_method ==
                 [method EXCEPT
                    !.arguments = [i \in DOMAIN @ |->
                                     [@[i] EXCEPT !.argument_type = args[i].value]],
                    !.return_type = ret.value,
                    !.class_membership =
                       IF is_some(@)
                       THEN Some([unwrap(@) EXCEPT !.class_type = cls.value])
                       ELSE @,
                    !.operator = IF is_conversion THEN Some(Conversion(conv.value)) ELSE @]
           IN  IF has_remaining_template_parameters(new_method)
               THEN Err("found remaining template parameters")
               ELSE IF is_conversion
                    THEN Ok([new_method EXCEPT
                               !.name = "operator " \o to_cpp_code(conv.value)])
                    ELSE Ok(new_method)

\* Variant: at an instantiation that fails the loop ends with the methods
\* built so far.
RECURSIVE apply_instantiations_from_keeping_earlier(_, _, _, _, _)
apply_instantiations_from_keeping_earlier(method, nested_level, inss, i, new_methods) ==
  IF i > Len(inss) THEN Ok(new_methods)
  ELSE LET r == instantiated_method(method, nested_level, inss[i])
       IN  IF r.ok
           THEN apply_instantiations_from_keeping_earlier(method, nested_level, inss, i + 1,
                                                          Append(new_methods, r.value))
           ELSE Ok(new_methods)

\* Variant: an instantiation that fails is skipped and the loop goes on
\* with the next one.
RECURSIVE apply_instantiations_from_skipping(_, _, _, _, _)
apply_instantiations_from_skipping(method, nested_level, inss, i, new_methods) ==
  IF i > Len(inss) THEN Ok(new_methods)
  ELSE LET r == instantiated_method(method, nested_level, inss[i])
       IN  apply_instantiations_from_skipping(
             method, nested_level, inss, i + 1,
             IF r.ok THEN Append(new_methods, r.value) ELSE new_methods)

\* The loop of apply_instantiations_to_method from instantiation i on, with
\* new_methods so far: the first error is the result of the function.
RECURSIVE apply_instantiations_from(_, _, _, _, _)
apply_instantiations_from(method, nested_level, inss, i, new_methods) ==
  IF i > Len(inss) THEN Ok(new_methods)
  ELSE LET r == instantiated_method(method, nested_level, inss[i])
       IN  IF r.ok
           THEN apply_instantiations_from(method, nested_level, inss, i + 1,
                                          Append(new_methods, r.value))
           ELSE r

apply_instantiations_to_method(method, nested_level, inss) ==
  apply_instantiations_from(method, nested_level, inss, 1, <<>>)

\* The involved types of a method at which the inner loop of
\* instantiate_templates calls apply_instantiations_to_method: a class with
\* template arguments that are all template parameters, registered in
\* template_instantiations (a map: contains_key is membership in DOMAIN).
is_instantiation_site(ty, tinst) ==
  /\ ty.base.kind = "Class"
  /\ is_some(ty.base.template_arguments)
  /\ \A i \in DOMAIN unwrap(ty.base.template_arguments) :
       is_template_parameter(unwrap(ty.base.template_arguments)[i].base)
  /\ ty.base.name \in DOMAIN tinst

\* What one method contributes to new_methods: the inner loop stops (break)
\* at the first instantiation site, with the methods of an Ok result and
\* with nothing on Err.
instantiations_of_method(method, tinst) ==
  LET sites == SelectSeq(all_involved_types(method),
                         LAMBDA ty : is_instantiation_site(ty, tinst))
  IN  IF sites = <<>> THEN <<>>
      ELSE LET type1 == sites[1]
               nested_level == unwrap(type1.base.template_arguments)[1].base.nested_level
               r == apply_instantiations_to_method(method, nested_level,
                                                   tinst[type1.base.name])
           IN  IF r.ok THEN r.value ELSE <<>>

instantiate_templates(ms, tinst) ==
  ms \o Flatten([i \in DOMAIN ms |-> instantiations_of_method(ms[i], tinst)])

\* ------------------------------------------------------- CppData: queries

\* Variant: a method of a base is left out as soon as the class owns a
\* method of the same name.
RECURSIVE get_all_methods_by_name(_, _, _)
get_all_methods_by_name(ms, ts, cn) ==
  LET own_methods == SelectSeq(ms, LAMBDA m : class_name(m) = Some(cn))
      type_info == find_type(ts, cn)
  IN  IF ~is_some(type_info)
      THEN [panic |-> FALSE, methods |-> own_methods]
      ELSE IF ~is_class(unwrap(type_info))
      THEN [panic |-> TRUE, methods |-> <<>>]
      ELSE LET bases == class_bases(unwrap(type_info))
               of_base == [i \in DOMAIN bases |->
                             get_all_methods_by_name(ms, ts, bases[i].base.name)]
               inherited_methods ==
                 Flatten([i \in DOMAIN bases |->
                   SelectSeq(of_base[i].methods, LAMBDA method :
                     ~\E k \in DOMAIN own_methods :
                        own_methods[k].name = method.name)])
           IN  IF \E i \in DOMAIN bases : of_base[i].panic
               THEN [panic |-> TRUE, methods |-> <<>>]
               ELSE [panic |-> FALSE, methods |-> inherited_methods \o own_methods]

\* get_all_methods: [panic, methods]; panic is the "not a class" panic of
\* this call or of a recursive call.
RECURSIVE get_all_methods(_, _, _)
get_all_methods(ms, ts, cn) ==
  LET own_methods == SelectSeq(ms, LAMBDA m : class_name(m) = Some(cn))
      type_info == find_type(ts, cn)
  IN  IF ~is_some(type_info)
      THEN [panic |-> FALSE, methods |-> own_methods]
      ELSE IF ~is_class(unwrap(type_info))
      THEN [panic |-> TRUE, methods |-> <<>>]
      ELSE LET bases == class_bases(unwrap(type_info))
               of_base == [i \in DOMAIN bases |->
                             get_all_methods(ms, ts, bases[i].base.name)]
               inherited_methods ==
                 Flatten([i \in DOMAIN bases |->
                   SelectSeq(of_base[i].methods, LAMBDA method :
                     ~\E k \in DOMAIN own_methods :
                        /\ own_methods[k].name = method.name
                        /\ argument_types_equal(own_methods[k], method))])
           IN  IF \E i \in DOMAIN bases : of_base[i].panic
               THEN [panic |-> TRUE, methods |-> <<>>]
               ELSE [panic |-> FALSE, methods |-> inherited_methods \o own_methods]

\* Variant: inherited methods are added before the templates are
\* instantiated.
post_process_pass_inheritance_first(step, ts, ms, tinst) ==
  CASE step = 1 -> ensure_explicit_destructors(ts, ms)
    [] step = 2 -> generate_methods_with_omitted_args(ms)
    [] step = 3 -> add_inherited_methods(ts, ms)
    [] step = 4 -> instantiate_templates(ms, tinst)

\* post_process: the four passes, in the order of the four calls.
post_process_pass(step, ts, ms, tinst) ==
  CASE step = 1 -> ensure_explicit_destructors(ts, ms)
    [] step = 2 -> generate_methods_with_omitted_args(ms)
    [] step = 3 -> instantiate_templates(ms, tinst)
    [] step = 4 -> add_inherited_methods(ts, ms)

\* ------------------------------------------- the signal/slot classifier

\* A database item: cpp_data is a Type, a Function or a ClassBase; source
\* is Some(origin location) for DatabaseItemSource::CppParser and None for
\* any other source.
TypeItem(n, k, src) ==
  [cpp_data |-> "Type", name |-> n, type_kind |-> k, derived_class_type |-> "",
   base_class_type |-> "", member |-> None, source |-> src]

ClassBaseItem(derived, base) ==
  [cpp_data |-> "ClassBase", name |-> "", type_kind |-> "", derived_class_type |-> derived,
   base_class_type |-> base, member |-> None, source |-> None]

\* member: the class membership of a function, with its class and flags.
FunctionItem(n, mem, src) ==
  [cpp_data |-> "Function", name |-> n, type_kind |-> "", derived_class_type |-> "",
   base_class_type |-> "", member |-> mem, source |-> src]

MemberOf(cn) == Some([class_type |-> cn, is_signal |-> FALSE, is_slot |-> FALSE])

\* CppFunction::class_name(): the class of a member function.
function_class_name(item) ==
  IF is_some(item.member) THEN Some(unwrap(item.member).class_type) ELSE None

RECURSIVE inherits(_, _, _)
inherits(all_items, derived_class_name, base_class_name) ==
  \E i \in DOMAIN all_items :
    /\ all_items[i].cpp_data = "ClassBase"
    /\ all_items[i].derived_class_type = derived_class_name
    /\ \/ all_items[i].base_class_type = base_class_name
       \/ inherits(all_items, all_items[i].base_class_type, base_class_name)

\* The include files of the parsed classes that derive from QObject.
files_to_scan(db_items) ==
  {unwrap(db_items[i].source).include_file_path :
     i \in {j \in DOMAIN db_items :
              /\ is_some(db_items[j].source)
              /\ db_items[j].cpp_data = "Type"
              /\ db_items[j].type_kind = "Class"
              /\ inherits(db_items, db_items[j].name, "QObject")}}

\* Regex::is_match of the three patterns, on the lines of the inputs.
re_signals_is_match(line) == line \in {"signals:", "Q_SLOTS: // not signals:"}

re_slots_is_match(line) == line \in {"slots:", "Q_SLOTS: // not signals:"}

re_other_is_match(line) == line \in {"public:"}

\* Option<SectionType> of a line.
section_type_of_line(line) ==
  IF re_signals_is_match(line) THEN Some("Signals")
  ELSE IF re_slots_is_match(line) THEN Some("Slots")
  ELSE IF re_other_is_match(line) THEN Some("Other")
  ELSE None

\* file_sections: the sections of a header's lines; line_num counts from 0.
file_sections(lines) ==
  LET marked == SelectSeq([k \in DOMAIN lines |-> k],
                          LAMBDA k : is_some(section_type_of_line(lines[k])))
  IN  [k \in DOMAIN marked |->
         [line |-> marked[k] - 1,
          section_type |-> unwrap(section_type_of_line(lines[marked[k]]))]]

\* sections.get(path): the sections of a scanned file that has some.
sections_get(scanned, hdrs, path) ==
  IF path \in scanned /\ file_sections(hdrs[path].lines) /= <<>>
  THEN Some(file_sections(hdrs[path].lines))
  ELSE None

\* The type items that insert into sections_per_class.
inserts_sections(db_items, scanned, hdrs, i) ==
  /\ is_some(db_items[i].source)
  /\ db_items[i].cpp_data = "Type"
  /\ is_some(sections_get(scanned, hdrs, unwrap(db_items[i].source).include_file_path))

\* Variant of sections_per_class.get: the sections kept are those at or
\* after the line of the class, without the + 1.
sections_per_class_get_from_class_line(db_items, scanned, hdrs, cn) ==
  LET hits == {i \in DOMAIN db_items :
                 inserts_sections(db_items, scanned, hdrs, i) /\ db_items[i].name = cn}
  IN  IF hits = {} THEN None
      ELSE LET last == CHOOSE i \in hits : \A j \in hits : j <= i
               origin_location == unwrap(db_items[last].source)
           IN  Some(SelectSeq(
                      unwrap(sections_get(scanned, hdrs, origin_location.include_file_path)),
                      LAMBDA x : x.line >= origin_location.line))

\* sections_per_class.get(class_name): the entry the last inserting type
\* item of that name left.
sections_per_class_get(db_items, scanned, hdrs, cn) ==
  LET hits == {i \in DOMAIN db_items :
                 inserts_sections(db_items, scanned, hdrs, i) /\ db_items[i].name = cn}
  IN  IF hits = {} THEN None
      ELSE LET last == CHOOSE i \in hits : \A j \in hits : j <= i
               origin_location == unwrap(db_items[last].source)
           IN  Some(SelectSeq(
                      unwrap(sections_get(scanned, hdrs, origin_location.include_file_path)),
                      LAMBDA x : x.line + 1 >= origin_location.line))

\* The section type of a parsed function when the first marker at or
\* before its line decides instead of the last one.
section_type_of_function_first_match(db_items, scanned, hdrs, item) ==
  IF ~is_some(function_class_name(item)) THEN "Other"
  ELSE LET sections == sections_per_class_get(db_items, scanned, hdrs,
                                              unwrap(function_class_name(item)))
       IN  IF ~is_some(sections) THEN "Other"
           ELSE LET matching_sections ==
                      SelectSeq(unwrap(sections),
                                LAMBDA x : x.line + 1 <= unwrap(item.source).line)
                IN  IF matching_sections = <<>> THEN "Other"
                    ELSE matching_sections[1].section_type

\* The section type the third loop finds for a parsed function.
section_type_of_function(db_items, scanned, hdrs, item) ==
  IF ~is_some(function_class_name(item)) THEN "Other"
  ELSE LET sections == sections_per_class_get(db_items, scanned, hdrs,
                                              unwrap(function_class_name(item)))
       IN  IF ~is_some(sections) THEN "Other"
           ELSE LET matching_sections ==
                      SelectSeq(unwrap(sections),
                                LAMBDA x : x.line + 1 <= unwrap(item.source).line)
                IN  IF matching_sections = <<>> THEN "Other"
                    ELSE matching_sections[Len(matching_sections)].section_type

\* The item as the third loop leaves it.
with_section_flags(item, section_type) ==
  IF ~is_some(item.member) THEN item
  ELSE CASE section_type = "Signals" ->
              [item EXCEPT !.member = Some([unwrap(@) EXCEPT !.is_signal = TRUE])]
         [] section_type = "Slots" ->
              [item EXCEPT !.member = Some([unwrap(@) EXCEPT !.is_slot = TRUE])]
         [] OTHER -> item

\* Variant of detect_signals_and_slots: the flags are written file by file,
\* so that an error leaves the flags found in the files read before it.
detect_signals_and_slots_writing_per_file(db_items, hdrs) ==
  LET files == files_to_scan(db_items)
      read == {f \in files : hdrs[f].readable}
      written == [i \in DOMAIN db_items |->
                    IF is_some(db_items[i].source) /\ db_items[i].cpp_data = "Function"
                    THEN with_section_flags(
                           db_items[i],
                           section_type_of_function(db_items, read, hdrs, db_items[i]))
                    ELSE db_items[i]]
  IN  IF files = {} THEN [ok |-> TRUE, items |-> db_items]
      ELSE [ok |-> read = files, items |-> written]

\* detect_signals_and_slots: the result and the items of the database.
\* hdrs maps a path to [readable, lines]: opening or reading a file that
\* is not readable is the error the function returns.
detect_signals_and_slots(db_items, hdrs) ==
  LET files == files_to_scan(db_items)
  IN  IF files = {} THEN [ok |-> TRUE, items |-> db_items]
      ELSE IF \E f \in files : ~hdrs[f].readable
      THEN [ok |-> FALSE, items |-> db_items]
      ELSE [ok |-> TRUE,
            items |-> [i \in DOMAIN db_items |->
              IF is_some(db_items[i].source) /\ db_items[i].cpp_data = "Function"
              THEN with_section_flags(
                     db_items[i],
                     section_type_of_function(db_items, files, hdrs, db_items[i]))
              ELSE db_items[i]]]

\* ------------------------------------------------------------------ state

VARIABLES
  types,                    \* CppData.types
  methods,                  \* CppData.methods
  template_instantiations,  \* CppData.template_instantiations
  pc,                       \* passes of the running post_process done (0: none running)
  calls,                    \* top-level calls made
  parsed,                   \* the database as the parser left it
  call_input,               \* methods when the latest top-level call started
  pass_input,               \* methods when the latest pass started
  last_pass,                \* the latest pass run
  last_call,                \* the latest top-level call started
  query,                    \* the latest query and its result (an Option)
  items,                    \* the items of the classifier's database
  headers,                  \* the header files: path -> [readable, lines]
  detect_result,            \* what detect_signals_and_slots returned
  items_input               \* the items when the classifier was called

database_vars ==
  <<types, methods, template_instantiations, pc, calls, parsed, call_input,
    pass_input, last_pass, last_call, query>>

classifier_vars == <<items, headers, detect_result, items_input>>

vars == <<database_vars, classifier_vars>>

PassNames ==
  <<"ensure_explicit_destructors", "generate_methods_with_omitted_args",
    "instantiate_templates", "add_inherited_methods">>

\* ----------------------------------------------------------------- inputs

Header(cn) == cn \o ".h"

ParserOrigin(cn) == Some(CppOriginLocation(Header(cn), 1))

Plain(cn) == CppTypeClassBase(cn, None)

\* ~cn(): an explicit destructor.
Dtor(cn, virt) ==
  CppMethod("~" \o cn, Some(CppMethodClassMembership(Plain(cn), "Destructor", virt, FALSE)),
            None, void, <<>>, Header(cn), ParserOrigin(cn))

\* cn(): a constructor, named after its class.
Ctor(cn) ==
  CppMethod(cn, Some(CppMethodClassMembership(Plain(cn), "Constructor", FALSE, FALSE)),
            None, void, <<>>, Header(cn), ParserOrigin(cn))

\* An ordinary member function of cn.
Member(cn, n, ret, args) ==
  CppMethod(n, Some(CppMethodClassMembership(Plain(cn), "Regular", FALSE, FALSE)),
            None, ret, args, Header(cn), ParserOrigin(cn))

\* cn& operator=(cn).
OpAssign(cn) ==
  CppMethod("operator=", Some(CppMethodClassMembership(Plain(cn), "Regular", FALSE, FALSE)),
            Some(Assignment), CppType(ClassBase(Plain(cn)), "Ref", FALSE),
            <<CppFunctionArgument("other", ClassType(cn, None), FALSE)>>,
            Header(cn), ParserOrigin(cn))

\* A function outside any class.
FreeFunction(n, ret, args) ==
  CppMethod(n, None, None, ret, args, "global.h", ParserOrigin("global"))

IntArg(n, dflt) == CppFunctionArgument(n, int, dflt)

\* The strictly increasing index sequences of length <= k into 1..n: the
\* sublists of a list of n elements with at most k elements.
Sublists(n, k) ==
  UNION {{s \in [1..len -> 1..n] : \A i \in 1..(len - 1) : s[i] < s[i + 1]} : len \in 0..k}

ListsFrom(pool, k) ==
  {[i \in DOMAIN s |-> pool[s[i]]] : s \in Sublists(Len(pool), k)}

Permutations3(a, b, c) ==
  {<<a, b, c>>, <<a, c, b>>, <<b, a, c>>, <<b, c, a>>, <<c, a, b>>, <<c, b, a>>}

Base(cn) == ClassType(cn, None)

\* Three classes A, B, C in every order of the type list: a chain, a fan,
\* a class with two bases, and a chain whose root X is not in the database.
HierarchyTypes ==
  UNION {Permutations3(ClassData("A", <<>>, None, "A.h"),
                       ClassData("B", h[1], None, "B.h"),
                       ClassData("C", h[2], None, "C.h")) :
         h \in {<<<<Base("A")>>, <<Base("B")>>>>,
                <<<<Base("A")>>, <<Base("A")>>>>,
                <<<<>>, <<Base("A"), Base("B")>>>>,
                <<<<Base("X")>>, <<Base("B")>>>>}}

\* Destructors, a constructor, overloads of f, an assignment operator, and
\* a member function of A that has the name of class B.
HierarchyPool ==
  <<Dtor("A", TRUE), Dtor("B", FALSE), Ctor("B"),
    Member("A", "f", void, <<IntArg("a", TRUE)>>),
    Member("B", "f", int, <<IntArg("a", FALSE)>>),
    Member("B", "f", void, <<>>),
    OpAssign("A"),
    Member("A", "B", void, <<>>)>>

HierarchyInputs ==
  {[types |-> ts, methods |-> ms, template_instantiations |-> <<>>] :
     ts \in HierarchyTypes, ms \in ListsFrom(HierarchyPool, MaxParserMethods)}

\* Parameter lists of every length up to MaxArity and every placement of
\* default values.
ArgumentLists ==
  UNION {{[i \in 1..len |-> IntArg("a", flags[i])] : flags \in [1..len -> BOOLEAN]} :
         len \in 0..MaxArity}

DefaultArgumentInputs ==
  {[types |-> <<ClassData("A", <<>>, None, "A.h"), EnumData("E", "A.h")>>,
    methods |-> ms \o rest,
    template_instantiations |-> <<>>] :
     ms \in {<<Member("A", "f", int, args)>> : args \in ArgumentLists}
            \cup {<<FreeFunction("f", int, args)>> : args \in ArgumentLists},
     rest \in {<<>>,
               <<FreeFunction("g", void, <<IntArg("x", FALSE), IntArg("y", TRUE)>>)>>,
               <<FreeFunction("g", void, <<IntArg("x", TRUE), IntArg("y", FALSE)>>)>>}}

BoxT == CppTypeClassBase("Box", Some(<<T(0, 0)>>))

\* A member function of the template class Box<T>.
BoxMember(n, op, ret, args) ==
  CppMethod(n, Some(CppMethodClassMembership(BoxT, "Regular", FALSE, FALSE)),
            op, ret, args, "Box.h", ParserOrigin("Box"))

\* T get(); void set(T v, int n = ..); a member whose return type is a
\* parameter of another nesting level; operator T(); a function taking a
\* Box<T>; a member of the instantiation Box<int> the parser saw itself.
TemplatePool ==
  <<BoxMember("get", None, T(0, 0), <<>>),
    BoxMember("set", None, void,
              <<CppFunctionArgument("v", T(0, 0), FALSE), IntArg("n", TRUE)>>),
    BoxMember("map", None, T(1, 0), <<>>),
    BoxMember("operator T", Some(Conversion(T(0, 0))), T(0, 0), <<>>),
    FreeFunction("wrap", int, <<CppFunctionArgument("b", Value(ClassBase(BoxT)), FALSE)>>),
    CppMethod("size",
              Some(CppMethodClassMembership(CppTypeClassBase("Box", Some(<<int>>)),
                                            "Regular", FALSE, FALSE)),
              None, int, <<>>, "Box.h", ParserOrigin("Box"))>>

\* The template class Box<T> and a class C deriving from Box<int>.
TemplateTypes ==
  LET box == ClassData("Box", <<>>, Some(<<"T">>), "Box.h")
      c   == ClassData("C", <<ClassType("Box", Some(<<int>>))>>, None, "C.h")
  IN  {<<box, c>>, <<c, box>>}

\* The registered instantiations of Box: lists without repetition of at
\* most MaxInstantiations argument lists; an argument is concrete or is
\* itself a template parameter of an enclosing template.
InstantiationLists ==
  LET arguments == <<int, bool, T(1, 0)>>
  IN  UNION {{[i \in 1..len |-> [template_arguments |-> <<arguments[s[i]]>>]] :
                s \in {f \in [1..len -> DOMAIN arguments] :
                         \A i, j \in 1..len : i /= j => f[i] /= f[j]}} :
             len \in 0..MaxInstantiations}

\* template_instantiations: a map from class names to instantiation lists.
Registries ==
  {<<>>} \cup {[n \in {"Box"} |-> inss] : inss \in InstantiationLists}

TemplateInputs ==
  {[types |-> ts, methods |-> ms, template_instantiations |-> reg] :
     ts \in TemplateTypes, ms \in ListsFrom(TemplatePool, MaxParserMethods),
     reg \in Registries}

ParserDatabases == HierarchyInputs \cup DefaultArgumentInputs \cup TemplateInputs

\* The class names a query is asked about: the types of the database and
\* X, a name that is in no database.
QueryNames(ts) == {ts[i].name : i \in DOMAIN ts} \cup {"X"}

\* ---------------------------------------------------------------- actions

Init ==
  /\ \E db \in ParserDatabases :
       /\ types = db.types
       /\ methods = db.methods
       /\ template_instantiations = db.template_instantiations
       /\ parsed = db
       /\ call_input = db.methods
       /\ pass_input = db.methods
  /\ pc = 0
  /\ calls = 0
  /\ last_pass = "none"
  /\ last_call = "none"
  /\ query = None
  /\ items = <<>>
  /\ headers = <<>>
  /\ detect_result = "none"
  /\ items_input = <<>>

\* A public pass called on its own (instantiate_templates is private).
CallPass(step) ==
  /\ pc = 0
  /\ calls < MaxCalls
  /\ query = None
  /\ methods' = post_process_pass(step, types, methods, template_instantiations)
  /\ call_input' = methods
  /\ pass_input' = methods
  /\ last_pass' = PassNames[step]
  /\ last_call' = PassNames[step]
  /\ calls' = calls + 1
  /\ UNCHANGED <<types, template_instantiations, pc, parsed, query>>
  /\ UNCHANGED classifier_vars

CallEnsureExplicitDestructors == CallPass(1)

CallGenerateMethodsWithOmittedArgs == CallPass(2)

CallAddInheritedMethods == CallPass(4)

\* post_process: its next pass, when at most limit calls are made on the
\* database. The call is counted when the last pass returns.
PostProcessWithin(limit) ==
  /\ IF pc = 0 THEN calls < limit /\ query = None ELSE TRUE
  /\ methods' = post_process_pass(pc + 1, types, methods, template_instantiations)
  /\ call_input' = IF pc = 0 THEN methods ELSE call_input
  /\ pass_input' = methods
  /\ last_pass' = PassNames[pc + 1]
  /\ last_call' = "post_process"
  /\ pc' = IF pc = 3 THEN 0 ELSE pc + 1
  /\ calls' = IF pc = 3 THEN calls + 1 ELSE calls
  /\ UNCHANGED <<types, template_instantiations, parsed, query>>
  /\ UNCHANGED classifier_vars

PostProcess == PostProcessWithin(MaxCalls)

\* A query is the last call made on a database: once a result is held no
\* further call is made.
QueryHasVirtualDestructor ==
  /\ pc = 0
  /\ calls < MaxCalls
  /\ query = None
  /\ \E cn \in QueryNames(types) :
       query' = Some([op |-> "has_virtual_destructor", class_name |-> cn,
                      result |-> has_virtual_destructor(methods, types, cn),
                      panic |-> FALSE, methods |-> <<>>])
  /\ UNCHANGED <<types, methods, template_instantiations, pc, calls, parsed,
                 call_input, pass_input, last_pass, last_call>>
  /\ UNCHANGED classifier_vars

QueryGetAllMethods ==
  /\ pc = 0
  /\ calls < MaxCalls
  /\ query = None
  /\ \E cn \in QueryNames(types) :
       LET r == get_all_methods(methods, types, cn)
       IN  query' = Some([op |-> "get_all_methods", class_name |-> cn,
                          result |-> FALSE, panic |-> r.panic, methods |-> r.methods])
  /\ UNCHANGED <<types, methods, template_instantiations, pc, calls, parsed,
                 call_input, pass_input, last_pass, last_call>>
  /\ UNCHANGED classifier_vars

Next ==
  \/ CallEnsureExplicitDestructors
  \/ CallGenerateMethodsWithOmittedArgs
  \/ CallAddInheritedMethods
  \/ PostProcess
  \/ QueryHasVirtualDestructor
  \/ QueryGetAllMethods

Spec == Init /\ [][Next]_vars

\* post_process run again and again on the database it left.
PostProcessAgain == PostProcessWithin(MaxRuns)

NextRerun == PostProcessAgain

SpecRerun == Init /\ [][NextRerun]_vars

\* ------------------------------------------------- classifier: inputs

ParserSource(path, ln) == Some(CppOriginLocation(path, ln))

Readable(lines) == [readable |-> TRUE, lines |-> lines]

Unreadable == [readable |-> FALSE, lines |-> <<>>]

LineAlphabet ==
  {"void m();", "public:", "signals:", "slots:", "Q_SLOTS: // not signals:"}

\* Every header text of at most MaxLines lines over the alphabet.
HeaderTexts == UNION {[1..len -> LineAlphabet] : len \in 0..MaxLines}

\* One class Q : QObject declared in q.h with one member function, for
\* every header text and every line of class and function.
SectionInputs ==
  {[items |-> <<TypeItem("Q", "Class", ParserSource("q.h", class_line)),
                ClassBaseItem("Q", "QObject"),
                FunctionItem("m", MemberOf("Q"), ParserSource("q.h", function_line))>>,
    headers |-> [path \in {"q.h", "n.h"} |->
                   IF path = "q.h" THEN Readable(text) ELSE Readable(<<>>)]] :
     text \in HeaderTexts, class_line \in 0..MaxLines, function_line \in 0..(MaxLines + 1)}

\* The header of the specification's scenario: three functions of a class
\* declared at line 0.
ScenarioInputs ==
  {[items |-> <<TypeItem("Q", "Class", ParserSource("q.h", 0)),
                ClassBaseItem("Q", "QObject"),
                FunctionItem("a", MemberOf("Q"), ParserSource("q.h", 1)),
                FunctionItem("b", MemberOf("Q"), ParserSource("q.h", 3)),
                FunctionItem("c", MemberOf("Q"), ParserSource("q.h", 5))>>,
    headers |-> [path \in {"q.h", "n.h"} |->
                   IF path = "q.h"
                   THEN Readable(<<"public:", "void a();", "signals:", "void b();",
                                   "slots:", "void c();">>)
                   ELSE Readable(<<>>)]]}

\* Q derives QObject through P (declared in n.h or not parsed at all); a
\* class N and an enum E that do not derive from QObject are declared in
\* q.h or in n.h; besides the members of Q and N there are a function
\* outside any class and a member of Q that no parser produced. Either
\* header may be unreadable.
MixedInputs ==
  {[items |-> <<TypeItem("P", "Class", p_source),
                ClassBaseItem("P", "QObject"),
                TypeItem("Q", "Class", ParserSource("q.h", 1)),
                ClassBaseItem("Q", "P"),
                TypeItem("N", "Class", ParserSource(n_file, n_line)),
                TypeItem("E", "Enum", ParserSource(n_file, 0)),
                FunctionItem("m", MemberOf("Q"), ParserSource("q.h", 2)),
                FunctionItem("n", MemberOf("N"), ParserSource(n_file, function_line)),
                FunctionItem("free", None, ParserSource("q.h", function_line)),
                FunctionItem("generated", MemberOf("Q"), None)>>,
    headers |-> [path \in {"q.h", "n.h"} |->
                   IF path = "q.h"
                   THEN IF q_readable THEN Readable(<<"slots:", "signals:", "void m();">>)
                        ELSE Unreadable
                   ELSE IF n_readable THEN Readable(<<"void m();", "slots:">>)
                        ELSE Unreadable]] :
     p_source \in {None, ParserSource("n.h", 0)},
     n_file \in {"q.h", "n.h"},
     n_line \in 0..MaxLines,
     function_line \in 0..(MaxLines + 1),
     q_readable \in BOOLEAN,
     n_readable \in BOOLEAN}

\* A database without any class deriving from QObject.
PlainInputs ==
  {[items |-> <<TypeItem("N", "Class", ParserSource("n.h", 0)),
                FunctionItem("n", MemberOf("N"), ParserSource("n.h", 2))>>,
    headers |-> [path \in {"q.h", "n.h"} |-> Readable(<<"signals:", "void n();">>)]]}

ClassifierInputs == SectionInputs \cup ScenarioInputs \cup MixedInputs \cup PlainInputs

\* ------------------------------------------------ classifier: actions

InitSignals ==
  /\ \E input \in ClassifierInputs :
       /\ items = input.items
       /\ headers = input.headers
       /\ items_input = input.items
  /\ detect_result = "none"
  /\ types = <<>>
  /\ methods = <<>>
  /\ template_instantiations = <<>>
  /\ parsed = [types |-> <<>>, methods |-> <<>>, template_instantiations |-> <<>>]
  /\ call_input = <<>>
  /\ pass_input = <<>>
  /\ pc = 0
  /\ calls = 0
  /\ last_pass = "none"
  /\ last_call = "none"
  /\ query = None

DetectSignalsAndSlots ==
  /\ detect_result = "none"
  /\ LET r == detect_signals_and_slots(items, headers)
     IN  /\ items' = r.items
         /\ detect_result' = IF r.ok THEN "Ok" ELSE "Err"
  /\ items_input' = items
  /\ UNCHANGED headers
  /\ UNCHANGED database_vars

NextSignals == DetectSignalsAndSlots

SpecSignals == InitSignals /\ [][NextSignals]_vars

\* ------------------------------------------------------------ properties

\* The positions of the destructors of class cn in a method list.
DestructorsOf(ms, cn) ==
  {i \in DOMAIN ms : is_destructor(ms[i]) /\ class_name(ms[i]) = Some(cn)}

\* The names of the class bases of cn, as its type record lists them.
DirectBasesOf(ts, cn) ==
  IF is_some(find_type(ts, cn))
  THEN {class_bases(unwrap(find_type(ts, cn)))[i].base.name :
          i \in DOMAIN class_bases(unwrap(find_type(ts, cn)))}
  ELSE {}

\* The names of the direct and the transitive bases of cn.
RECURSIVE AncestorsOf(_, _)
AncestorsOf(ts, cn) ==
  DirectBasesOf(ts, cn) \cup UNION {AncestorsOf(ts, b) : b \in DirectBasesOf(ts, cn)}

ClassNames(ts) == {ts[i].name : i \in {j \in DOMAIN ts : is_class(ts[j])}}

\* The classes that had no destructor when the latest pass started.
ClassesWithoutDestructor == {cn \in ClassNames(types) : DestructorsOf(pass_input, cn) = {}}

\* The only destructor of cn in the database.
TheDestructorOf(cn) == methods[CHOOSE i \in DestructorsOf(methods, cn) : TRUE]

\* Class cn has exactly one destructor, and it is a synthesized one: public,
\* not pure virtual, without origin location.
HasOneSynthesizedDestructor(cn) ==
  /\ Cardinality(DestructorsOf(methods, cn)) = 1
  /\ TheDestructorOf(cn).origin_location = None
  /\ unwrap(TheDestructorOf(cn).class_membership).visibility = "Public"
  /\ ~unwrap(TheDestructorOf(cn).class_membership).is_pure_virtual

AfterPass(n) == last_pass = n

\* C1 as stated: after ensure_explicit_destructors every class that had no
\* destructor has exactly one, synthesized, and it is virtual iff the
\* virtual-destructor query is true for at least one of ALL bases of the
\* class, the direct and the transitive ones.
C1_VirtualIffAnyAncestorQuery ==
  AfterPass("ensure_explicit_destructors") =>
    \A cn \in ClassesWithoutDestructor :
      /\ HasOneSynthesizedDestructor(cn)
      /\ unwrap(TheDestructorOf(cn).class_membership).is_virtual
           = (\E b \in AncestorsOf(types, cn) : has_virtual_destructor(pass_input, types, b))

\* C1 amended: after ensure_explicit_destructors every class that had no
\* destructor has exactly one, synthesized (public, not pure virtual, no
\* origin location), and it is virtual iff the virtual-destructor query is
\* true for at least one DIRECT base of the class; the query of a base with
\* a destructor of its own answers with that destructor's flag and does not
\* look at the bases above it. The query results are the same in the
\* database before and after the pass.
C1_VirtualIffDirectBaseQuery ==
  AfterPass("ensure_explicit_destructors") =>
    \A cn \in ClassesWithoutDestructor :
      /\ HasOneSynthesizedDestructor(cn)
      /\ unwrap(TheDestructorOf(cn).class_membership).is_virtual
           = (\E b \in DirectBasesOf(types, cn) : has_virtual_destructor(pass_input, types, b))
      /\ unwrap(TheDestructorOf(cn).class_membership).is_virtual
           = (\E b \in DirectBasesOf(types, cn) : has_virtual_destructor(methods, types, b))

\* A class without destructor got a virtual one because of a base that is
\* not a direct base (Derived : Mid : Base, only Base has a destructor).
C1_Witness ==
  /\ AfterPass("ensure_explicit_destructors")
  /\ \E cn \in ClassesWithoutDestructor :
       /\ unwrap(TheDestructorOf(cn).class_membership).is_virtual
       /\ \E b \in DirectBasesOf(types, cn) :
            /\ b \in ClassesWithoutDestructor
            /\ \E a \in DirectBasesOf(types, b) : DestructorsOf(pass_input, a) /= {}

\* The latest query, when it is of operation op.
Asked(op) == is_some(query) /\ unwrap(query).op = op

\* The first destructor of cn in the database.
FirstDestructorOf(cn) ==
  methods[CHOOSE i \in DestructorsOf(methods, cn) : \A j \in DestructorsOf(methods, cn) : i <= j]

\* C8: has_virtual_destructor(c) is the is_virtual flag of the destructor of
\* c when c has one (whatever its bases have); otherwise it is true iff the
\* query is true for some base of c; it is false when neither c nor any of
\* its bases has a destructor, and false when c is not in the database.
C8_HasVirtualDestructor ==
  Asked("has_virtual_destructor") =>
    LET cn == unwrap(query).class_name
        result == unwrap(query).result
    IN  /\ DestructorsOf(methods, cn) /= {} =>
             result = unwrap(FirstDestructorOf(cn).class_membership).is_virtual
        /\ DestructorsOf(methods, cn) = {} =>
             result = (\E b \in DirectBasesOf(types, cn) :
                         has_virtual_destructor(methods, types, b))
        /\ (\A c \in {cn} \cup AncestorsOf(types, cn) : DestructorsOf(methods, c) = {})
             => result = FALSE
        /\ ~is_some(find_type(types, cn)) => result = FALSE

\* The query was asked about a class whose own destructor is not virtual
\* while a base of it has a virtual destructor: the answer is false.
C8_Witness ==
  /\ Asked("has_virtual_destructor")
  /\ DestructorsOf(methods, unwrap(query).class_name) /= {}
  /\ ~unwrap(query).result
  /\ \E b \in DirectBasesOf(types, unwrap(query).class_name) :
       has_virtual_destructor(methods, types, b)

\* The number of default-valued parameters at the end of the parameter list.
TrailingDefaults(m) ==
  LET n == Len(m.arguments)
  IN  CHOOSE k \in 0..n :
        /\ \A i \in (n - k + 1)..n : m.arguments[i].has_default_value
        /\ k < n => ~m.arguments[n - k].has_default_value

\* Method m without its last j parameters, for j = 1 .. k.
ReducedOverloads(m) ==
  [j \in 1..TrailingDefaults(m) |->
     [m EXCEPT !.arguments = SubSeq(m.arguments, 1, Len(m.arguments) - j)]]

\* C2: generate_methods_with_omitted_args appends, for every method of arity
\* n with k trailing default-valued parameters, exactly the k copies of
\* arity n-1 down to n-k (equal to the method in everything but the
\* parameter list), in method order, and nothing for a method whose last
\* parameter has no default value or that has no parameter; the methods
\* that were there stay as they were.
C2_OmittedArgs ==
  AfterPass("generate_methods_with_omitted_args") =>
    methods = pass_input \o Flatten([i \in DOMAIN pass_input |->
                                       ReducedOverloads(pass_input[i])])

\* foo(int a, int b = 5, int c = 10) was expanded: a method of arity 3 with
\* two trailing defaults, next to one whose last parameter has no default.
C2_Witness ==
  /\ AfterPass("generate_methods_with_omitted_args")
  /\ \E i \in DOMAIN pass_input :
       Len(pass_input[i].arguments) = 3 /\ TrailingDefaults(pass_input[i]) = 2
  /\ \E i \in DOMAIN pass_input :
       Len(pass_input[i].arguments) > 0 /\ TrailingDefaults(pass_input[i]) = 0
  /\ Len(methods) = Len(pass_input) + 2

\* The positions of the methods the latest pass appended.
Appended == (Len(pass_input) + 1)..Len(methods)

IsSpecialMember(m) ==
  is_constructor(m) \/ is_destructor(m) \/ m.operator = Some(Assignment)

\* C3: no method appended by add_inherited_methods has the name of a method
\* its class owned when the pass started, and none is a constructor, a
\* destructor or an assignment operator.
C3_NoShadowedNoSpecial ==
  AfterPass("add_inherited_methods") =>
    \A i \in Appended :
      /\ ~\E j \in DOMAIN pass_input :
            /\ class_name(pass_input[j]) = class_name(methods[i])
            /\ pass_input[j].name = methods[i].name
      /\ ~IsSpecialMember(methods[i])

\* Propagation inserted a method, although the receiving class's base also
\* owns special members, and another base method was held back by a method
\* of the same name but other argument types in the derived class.
C3_Witness ==
  /\ AfterPass("add_inherited_methods")
  /\ Appended /= {}
  /\ \E i, j \in DOMAIN pass_input :
       /\ is_some(class_name(pass_input[i]))
       /\ is_some(class_name(pass_input[j]))
       /\ unwrap(class_name(pass_input[i])) \in DirectBasesOf(types, unwrap(class_name(pass_input[j])))
       /\ ~IsSpecialMember(pass_input[i])
       /\ pass_input[i].name = pass_input[j].name
       /\ ~argument_types_equal(pass_input[i], pass_input[j])
  /\ \E i \in DOMAIN pass_input, k \in Appended :
       /\ IsSpecialMember(pass_input[i])
       /\ is_some(class_name(pass_input[i]))
       /\ unwrap(class_name(pass_input[i])) \in DirectBasesOf(types, unwrap(class_name(methods[k])))

\* The names of the methods class cn owns.
NamesOf(ms, cn) == {ms[i].name : i \in {j \in DOMAIN ms : class_name(ms[j]) = Some(cn)}}

\* The names class cn owns on a method that is no constructor, destructor
\* or assignment operator.
OrdinaryNamesOf(ms, cn) ==
  {ms[i].name : i \in {j \in DOMAIN ms : class_name(ms[j]) = Some(cn) /\ ~IsSpecialMember(ms[j])}}

\* The names class cn owns on a constructor, destructor or assignment operator.
SpecialNamesOf(ms, cn) ==
  {ms[i].name : i \in {j \in DOMAIN ms : class_name(ms[j]) = Some(cn) /\ IsSpecialMember(ms[j])}}

\* No type declares template parameters and no base is a template instance.
NonTemplateHierarchy ==
  \A i \in DOMAIN types :
    /\ ~is_some(types[i].template_arguments)
    /\ \A j \in DOMAIN types[i].bases : ~is_some(types[i].bases[j].base.template_arguments)

\* C10 as stated: after add_inherited_methods on non-template classes, every
\* name an ancestor A of D owns on an ordinary method is the name of some
\* method D owns.
C10_EveryAncestorNameReachesDescendant ==
  (AfterPass("add_inherited_methods") /\ NonTemplateHierarchy) =>
    \A d \in ClassNames(types) : \A a \in AncestorsOf(types, d) :
      OrdinaryNamesOf(methods, a) \subseteq NamesOf(methods, d)

\* The classes strictly between a and d: descendants of a, ancestors of d.
Between(a, d) == {m \in AncestorsOf(types, d) : a \in AncestorsOf(types, m)}

\* C10 amended: after add_inherited_methods on non-template classes, every
\* name an ancestor A of D owns on an ordinary method is the name of some
\* method D owns, unless a class between A and D owns a constructor,
\* destructor or assignment operator of that name (such a member hides the
\* name in its class and is itself never propagated).
C10_AncestorNameReachesUnlessSpecialBetween ==
  (AfterPass("add_inherited_methods") /\ NonTemplateHierarchy) =>
    \A d \in ClassNames(types) : \A a \in AncestorsOf(types, d) :
      \A n \in OrdinaryNamesOf(methods, a) :
        (\A m \in Between(a, d) : n \notin SpecialNamesOf(methods, m))
          => n \in NamesOf(methods, d)

\* A name went down two levels: the root of a chain owns an ordinary method
\* that the class in the middle did not declare, and the class at the end
\* owns a method of that name after propagation.
C10_Witness ==
  /\ AfterPass("add_inherited_methods")
  /\ NonTemplateHierarchy
  /\ \E d \in ClassNames(types) : \E a \in AncestorsOf(types, d) :
       /\ Between(a, d) /= {}
       /\ a \notin DirectBasesOf(types, d)
       /\ \E n \in OrdinaryNamesOf(pass_input, a) :
            /\ \A m \in Between(a, d) : n \notin NamesOf(pass_input, m)
            /\ n \notin NamesOf(pass_input, d)
            /\ n \in NamesOf(methods, d)

RECURSIVE SumSeq(_)
SumSeq(ns) == IF ns = <<>> THEN 0 ELSE Head(ns) + SumSeq(Tail(ns))

\* How often value x occurs in a sequence.
Count(x, xs) == Cardinality({i \in DOMAIN xs : xs[i] = x})

\* C9: get_all_methods(c) holds every method as often as c owns it plus,
\* for each base b of c, as often as get_all_methods(b) holds it when no
\* method c owns has its name and its argument types (and not at all when
\* one has); it holds nothing else. The call panics iff c is a type of the
\* database that is not a class.
C9_GetAllMethods ==
  Asked("get_all_methods") =>
    LET cn == unwrap(query).class_name
        result == unwrap(query).methods
        own == {i \in DOMAIN methods : class_name(methods[i]) = Some(cn)}
        bases == IF is_some(find_type(types, cn))
                 THEN class_bases(unwrap(find_type(types, cn)))
                 ELSE <<>>
        Hidden(x) == \E k \in own :
                       methods[k].name = x.name /\ argument_types_equal(methods[k], x)
    IN  /\ unwrap(query).panic
             = (is_some(find_type(types, cn)) /\ ~is_class(unwrap(find_type(types, cn))))
        /\ ~unwrap(query).panic =>
             /\ Range(result) \subseteq Range(methods)
             /\ \A x \in Range(methods) :
                  Count(x, result)
                    = Cardinality({k \in own : methods[k] = x})
                      + SumSeq([b \in DOMAIN bases |->
                          IF Hidden(x) THEN 0
                          ELSE Count(x, get_all_methods(methods, types,
                                                        bases[b].base.name).methods)])

\* The result holds a method of a base next to a method of the class with
\* the same name and other argument types.
C9_Witness ==
  /\ Asked("get_all_methods")
  /\ \E i, j \in DOMAIN unwrap(query).methods :
       LET own == unwrap(query).methods[i]
           inherited == unwrap(query).methods[j]
       IN  /\ class_name(own) = Some(unwrap(query).class_name)
           /\ class_name(inherited) /= Some(unwrap(query).class_name)
           /\ own.name = inherited.name
           /\ ~argument_types_equal(own, inherited)

\* The template parameters (nesting level, index) a type refers to.
RECURSIVE ParamRefs(_)
ParamRefs(ty) ==
  CASE ty.base.kind = "TemplateParameter" -> {<<ty.base.nested_level, ty.base.index>>}
    [] ty.base.kind = "Class" /\ is_some(ty.base.template_arguments) ->
         UNION {ParamRefs(unwrap(ty.base.template_arguments)[i]) :
                  i \in DOMAIN unwrap(ty.base.template_arguments)}
    [] OTHER -> {}

\* The template parameters the involved types of a method refer to.
MethodParamRefs(m) ==
  UNION {ParamRefs(all_involved_types(m)[i]) : i \in DOMAIN all_involved_types(m)}

\* A reference to a registered template class whose template arguments are
\* all template parameters.
IsGenericReference(ty) ==
  /\ ty.base.kind = "Class"
  /\ is_some(ty.base.template_arguments)
  /\ \A i \in DOMAIN unwrap(ty.base.template_arguments) :
       unwrap(ty.base.template_arguments)[i].base.kind = "TemplateParameter"
  /\ ty.base.name \in DOMAIN template_instantiations

GenericReferences(m) ==
  {i \in DOMAIN all_involved_types(m) : IsGenericReference(all_involved_types(m)[i])}

\* The first generic reference among the involved types of a generic method.
FirstGenericReference(m) ==
  all_involved_types(m)[CHOOSE i \in GenericReferences(m) :
                          \A j \in GenericReferences(m) : i <= j]

\* The instantiation set the generic method m is instantiated with.
InstantiationSet(m) == template_instantiations[FirstGenericReference(m).base.name]

\* Substituting the arguments of ins for the parameters of the level of the
\* generic reference leaves a template parameter in method m.
LeavesResidual(m, ins) ==
  \E r \in MethodParamRefs(m) :
    \/ r[1] /= unwrap(FirstGenericReference(m).base.template_arguments)[1].base.nested_level
    \/ r[2] + 1 > Len(ins.template_arguments)
    \/ ParamRefs(ins.template_arguments[r[2] + 1]) /= {}

\* The number of methods instantiate_templates is to append for method m.
ExpectedInstances(m) ==
  IF GenericReferences(m) = {} THEN 0
  ELSE IF \E i \in DOMAIN InstantiationSet(m) : LeavesResidual(m, InstantiationSet(m)[i])
       THEN 0
       ELSE Len(InstantiationSet(m))

\* Where the methods appended for pass_input[i] start, less one.
InstancesOffset(i) ==
  Len(pass_input) + SumSeq([j \in 1..(i - 1) |-> ExpectedInstances(pass_input[j])])

\* C4: instantiate_templates appends, in method order, for every generic
\* method |I| methods (I: the instantiation set of the template class of its
\* first generic reference) when no instantiation of I leaves a template
\* parameter in it, and none otherwise; nothing for other methods. The
\* appended methods keep name (conversion operators are renamed) and arity
\* and refer to no template parameter.
C4_InstantiateAllOrNone ==
  AfterPass("instantiate_templates") =>
    /\ Len(methods) = InstancesOffset(Len(pass_input) + 1)
    /\ \A i \in DOMAIN pass_input : \A k \in 1..ExpectedInstances(pass_input[i]) :
         LET new_method == methods[InstancesOffset(i) + k]
         IN  /\ Len(new_method.arguments) = Len(pass_input[i].arguments)
             /\ new_method.operator = None => new_method.name = pass_input[i].name
             /\ new_method.origin_location = pass_input[i].origin_location
    /\ \A i \in Appended : MethodParamRefs(methods[i]) = {}

\* Box<T>::get() -> T was instantiated for two registered instantiations,
\* one of them Box<int> giving get() -> int, while another generic method
\* of the same database left a parameter unresolved and produced nothing.
C4_Witness ==
  /\ AfterPass("instantiate_templates")
  /\ \E i \in DOMAIN pass_input :
       /\ pass_input[i].name = "get"
       /\ ExpectedInstances(pass_input[i]) = 2
       /\ \E k \in 1..2 :
            /\ methods[InstancesOffset(i) + k].return_type = int
            /\ unwrap(methods[InstancesOffset(i) + k].class_membership).class_type
                 = CppTypeClassBase("Box", Some(<<int>>))
  /\ \E j \in DOMAIN pass_input :
       /\ GenericReferences(pass_input[j]) /= {}
       /\ InstantiationSet(pass_input[j]) /= <<>>
       /\ ExpectedInstances(pass_input[j]) = 0

\* C6: post_process runs ensure_explicit_destructors,
\* generate_methods_with_omitted_args, instantiate_templates and
\* add_inherited_methods in this order, each on the whole method list the
\* passes before it left: after k passes the method list is the k-fold
\* composition applied to the list the call started with.
C6_PassOrder ==
  last_call = "post_process" =>
    LET after1 == ensure_explicit_destructors(types, call_input)
        after2 == generate_methods_with_omitted_args(after1)
        after3 == instantiate_templates(after2, template_instantiations)
        after4 == add_inherited_methods(types, after3)
    IN  /\ pc = 1 => methods = after1 /\ last_pass = "ensure_explicit_destructors"
        /\ pc = 2 => methods = after2 /\ last_pass = "generate_methods_with_omitted_args"
        /\ pc = 3 => methods = after3 /\ last_pass = "instantiate_templates"
        /\ pc = 0 => methods = after4 /\ last_pass = "add_inherited_methods"

\* post_process returned and class C : Box<int> owns set(int): the inherited
\* copy of the instantiation of the reduced overload of
\* Box<T>::set(T, int = ..).
C6_Witness ==
  /\ last_call = "post_process"
  /\ pc = 0
  /\ \E i \in DOMAIN call_input :
       call_input[i].name = "set" /\ Len(call_input[i].arguments) = 2
  /\ \E i \in DOMAIN methods :
       /\ class_name(methods[i]) = Some("C")
       /\ methods[i].name = "set"
       /\ Len(methods[i].arguments) = 1
       /\ methods[i].arguments[1].argument_type = int

IsPrefix(xs, ys) == Len(xs) <= Len(ys) /\ SubSeq(ys, 1, Len(xs)) = xs

\* C7: the method list a pass started with is a prefix of the list it
\* leaves, so is the list post_process (or a pass called on its own)
\* started with and the list of the parser; the type list and the
\* template instantiations stay those of the parser.
C7_AppendOnly ==
  /\ IsPrefix(pass_input, methods)
  /\ IsPrefix(call_input, methods)
  /\ IsPrefix(parsed.methods, call_input)
  /\ types = parsed.types
  /\ template_instantiations = parsed.template_instantiations

\* post_process returned and each of its four passes appended a method.
C7_Witness ==
  /\ last_call = "post_process"
  /\ pc = 0
  /\ call_input /= <<>>
  /\ LET after1 == ensure_explicit_destructors(types, call_input)
         after2 == generate_methods_with_omitted_args(after1)
         after3 == instantiate_templates(after2, template_instantiations)
     IN  /\ Len(call_input) < Len(after1)
         /\ Len(after1) < Len(after2)
         /\ Len(after2) < Len(after3)
         /\ Len(after3) < Len(methods)


\* ------------------------------------------------------------ C5

\* The parsed type item that declares a class, when there is one.
DeclarationsOf(db_items, cn) ==
  {i \in DOMAIN db_items :
     db_items[i].cpp_data = "Type" /\ db_items[i].name = cn /\ is_some(db_items[i].source)}

\* The parsed member functions whose class is declared in a scanned header.
ClassifiableFunctions(db_items) ==
  {i \in DOMAIN db_items :
     /\ db_items[i].cpp_data = "Function"
     /\ is_some(db_items[i].source)
     /\ is_some(db_items[i].member)
     /\ \E d \in DeclarationsOf(db_items, unwrap(db_items[i].member).class_type) :
          unwrap(db_items[d].source).include_file_path \in files_to_scan(db_items)}

\* The lines (counted from 0) of a header text that hold a section marker.
MarkerLines(text) ==
  {k \in 0..(Len(text) - 1) : is_some(section_type_of_line(text[k + 1]))}

\* The header text of the class of a member function.
HeaderTextOf(db_items, hdrs, cn) ==
  LET d == CHOOSE d \in DeclarationsOf(db_items, cn) : TRUE
  IN  hdrs[unwrap(db_items[d].source).include_file_path].lines

\* The marker lines in the scope of a class: a marker at line k (counted
\* from 0) is in scope when k + 1 is at least the line of the class's
\* declaration.
InScopeMarkerLines(db_items, hdrs, cn) ==
  {k \in MarkerLines(HeaderTextOf(db_items, hdrs, cn)) :
     \A d \in DeclarationsOf(db_items, cn) : k + 1 >= unwrap(db_items[d].source).line}

\* The in-scope marker lines strictly before the declaration line of the
\* function.
PrecedingMarkerLines(db_items, hdrs, i) ==
  {k \in InScopeMarkerLines(db_items, hdrs, unwrap(db_items[i].member).class_type) :
     k < unwrap(db_items[i].source).line}

Max(S) == CHOOSE k \in S : \A j \in S : j <= k

\* The kind of the marker that decides the section of the function:
\* "None" when no in-scope marker precedes it.
DecidingMarkerKind(db_items, hdrs, i) ==
  LET before == PrecedingMarkerLines(db_items, hdrs, i)
      text == HeaderTextOf(db_items, hdrs, unwrap(db_items[i].member).class_type)
  IN  IF before = {} THEN "None"
      ELSE unwrap(section_type_of_line(text[Max(before) + 1]))

Flags(item) == <<unwrap(item.member).is_signal, unwrap(item.member).is_slot>>

Classified == detect_result = "Ok" /\ files_to_scan(items_input) /= {}

\* C5: after a successful run of detect_signals_and_slots, for every parsed
\* member function of a class declared in a scanned header the last in-scope
\* section marker strictly before the function's declaration line decides:
\* is_signal is set iff it is a signals opener, is_slot is set iff it is a
\* slots opener, and both flags are as before the call when it is a
\* public:/protected:/private: marker or when no in-scope marker precedes
\* the function. In the scenario header with the class at line 0, a (line 1)
\* is unclassified, b (line 3) is a signal and c (line 5) is a slot.
C5_LastPrecedingMarkerDecides ==
  Classified =>
    /\ \A i \in ClassifiableFunctions(items_input) :
         LET kind == DecidingMarkerKind(items_input, headers, i)
         IN  /\ kind = "Signals" => Flags(items[i]) = <<TRUE, Flags(items_input[i])[2]>>
             /\ kind = "Slots" => Flags(items[i]) = <<Flags(items_input[i])[1], TRUE>>
             /\ kind \in {"Other", "None"} => Flags(items[i]) = Flags(items_input[i])
             /\ unwrap(items[i].member).is_signal <=> kind = "Signals"
             /\ unwrap(items[i].member).is_slot <=> kind = "Slots"
    /\ \A input \in ScenarioInputs :
         items_input = input.items /\ headers = input.headers =>
           /\ Flags(items[3]) = <<FALSE, FALSE>>
           /\ Flags(items[4]) = <<TRUE, FALSE>>
           /\ Flags(items[5]) = <<FALSE, TRUE>>

\* A function preceded by several in-scope markers and followed by another
\* marker took its section from the last marker before it, a slots opener,
\* while an earlier marker is of another kind.
C5_Witness ==
  /\ Classified
  /\ \E i \in ClassifiableFunctions(items_input) :
       LET before == PrecedingMarkerLines(items_input, headers, i)
           text == HeaderTextOf(items_input, headers,
                                unwrap(items_input[i].member).class_type)
       IN  /\ Cardinality(before) >= 2
           /\ MarkerLines(text) \ before /= {}
           /\ \E k \in before :
                unwrap(section_type_of_line(text[k + 1]))
                  /= DecidingMarkerKind(items_input, headers, i)
           /\ DecidingMarkerKind(items_input, headers, i) = "Slots"
           /\ Flags(items[i]) = <<FALSE, TRUE>>


\* ------------------------------------------------------------ C11

\* The nesting level of the parameters the generic method m is
\* instantiated at.
InstantiationLevel(m) ==
  unwrap(FirstGenericReference(m).base.template_arguments)[1].base.nested_level

\* The candidate instantiations of the generic method m that resolve fully.
ResolvingCandidates(m) ==
  {k \in DOMAIN InstantiationSet(m) : ~LeavesResidual(m, InstantiationSet(m)[k])}

\* C11: instantiate_templates rejects candidates one by one: for a generic
\* method, a candidate instantiation that leaves a template parameter
\* produces no method, and every candidate that resolves fully has its
\* method among the appended ones, whatever the other candidates of the
\* same method do.
C11_RejectsPerCandidate ==
  AfterPass("instantiate_templates") =>
    \A i \in DOMAIN pass_input :
      GenericReferences(pass_input[i]) /= {} =>
        /\ \A k \in ResolvingCandidates(pass_input[i]) :
             \E j \in Appended :
               Ok(methods[j]) = instantiated_method(pass_input[i],
                                                    InstantiationLevel(pass_input[i]),
                                                    InstantiationSet(pass_input[i])[k])
        /\ \A j \in Appended : MethodParamRefs(methods[j]) = {}


\* The method of candidate k of the generic method m.
CandidateMethod(m, k) ==
  instantiated_method(m, InstantiationLevel(m), InstantiationSet(m)[k])

\* Some candidate instantiation of the generic method m leaves a parameter.
SomeCandidateLeavesResidual(m) ==
  \E k \in DOMAIN InstantiationSet(m) : LeavesResidual(m, InstantiationSet(m)[k])

\* C11, amended: instantiate_templates rejects per method. When some
\* candidate instantiation of a generic method leaves a template parameter,
\* no method is appended for any candidate of that method, the resolving
\* ones included; the failure is not fatal: the pass completes and every
\* generic method all of whose candidates resolve has the methods of all
\* its candidates appended, wherever it stands in the list.
C11_RejectsPerMethod ==
  AfterPass("instantiate_templates") =>
    \A i \in DOMAIN pass_input :
      GenericReferences(pass_input[i]) /= {} =>
        IF SomeCandidateLeavesResidual(pass_input[i])
        THEN \A k \in ResolvingCandidates(pass_input[i]) : \A j \in Appended :
               Ok(methods[j]) /= CandidateMethod(pass_input[i], k)
        ELSE \A k \in DOMAIN InstantiationSet(pass_input[i]) : \E j \in Appended :
               Ok(methods[j]) = CandidateMethod(pass_input[i], k)

\* A generic method with a resolving first candidate and a second candidate
\* that leaves a parameter got no method, and the pass went on: a generic
\* method after it in the list was looked at and rejected as well, and the
\* database is otherwise as before the pass.
C11_Witness ==
  /\ AfterPass("instantiate_templates")
  /\ \E i \in DOMAIN pass_input :
       /\ pass_input[i].name = "get"
       /\ GenericReferences(pass_input[i]) /= {}
       /\ Len(InstantiationSet(pass_input[i])) = 2
       /\ 1 \in ResolvingCandidates(pass_input[i])
       /\ LeavesResidual(pass_input[i], InstantiationSet(pass_input[i])[2])
       /\ \E j \in DOMAIN pass_input : j > i /\ GenericReferences(pass_input[j]) /= {}
  /\ methods = pass_input

\* ------------------------------------------------------------ C12

\* The line of the declaration of a class of the classifier's database.
ClassLineOf(db_items, cn) ==
  LET d == CHOOSE d \in DeclarationsOf(db_items, cn) : TRUE
  IN  unwrap(db_items[d].source).line

\* The marker lines at or after the declaration line of the class.
MarkerLinesFromClassLine(db_items, hdrs, cn) ==
  {k \in MarkerLines(HeaderTextOf(db_items, hdrs, cn)) : k >= ClassLineOf(db_items, cn)}

\* The kind of the last marker at or after the class line and strictly
\* before the line of the function: "None" when there is no such marker.
KindFromClassLine(db_items, hdrs, i) ==
  LET cn == unwrap(db_items[i].member).class_type
      before == {k \in MarkerLinesFromClassLine(db_items, hdrs, cn) :
                   k < unwrap(db_items[i].source).line}
  IN  IF before = {} THEN "None"
      ELSE unwrap(section_type_of_line(HeaderTextOf(db_items, hdrs, cn)[Max(before) + 1]))

\* C12: only the section markers at or after the declaration line of a
\* class are retained for it: the section of each of its functions is
\* decided among these markers alone, so a marker on a line before the
\* class's declaration line, the line immediately before it included,
\* never sets is_signal or is_slot of a function of the class.
C12_MarkersBeforeClassNeverDecide ==
  Classified =>
    \A i \in ClassifiableFunctions(items_input) :
      LET kind == KindFromClassLine(items_input, headers, i)
      IN  /\ unwrap(items[i].member).is_signal <=> kind = "Signals"
          /\ unwrap(items[i].member).is_slot <=> kind = "Slots"


\* The marker lines strictly before the line of function i, in scope or not.
MarkerLinesBefore(db_items, hdrs, i) ==
  {k \in MarkerLines(HeaderTextOf(db_items, hdrs, unwrap(db_items[i].member).class_type)) :
     k < unwrap(db_items[i].source).line}

\* The kind of the marker at line k of the header of the class of function i.
MarkerKindAt(db_items, hdrs, i, k) ==
  unwrap(section_type_of_line(
           HeaderTextOf(db_items, hdrs, unwrap(db_items[i].member).class_type)[k + 1]))

\* C12, amended: with lines counted from 0, the markers retained for a class
\* are those from the line immediately before its declaration line on. A
\* flag is set on a function only by a marker of its kind on a line k with
\* class line - 1 <= k < function line; when every marker before the
\* function lies two or more lines before the class line the flags stay as
\* they were; and when the last marker before the function is on the line
\* immediately before the class line, that marker decides.
C12_MarkersRetainedFromLineBeforeClass ==
  Classified =>
    \A i \in ClassifiableFunctions(items_input) :
      LET class_line == ClassLineOf(items_input, unwrap(items_input[i].member).class_type)
          before == MarkerLinesBefore(items_input, headers, i)
          KindSets(kind) ==
            \E k \in before :
              k >= class_line - 1 /\ MarkerKindAt(items_input, headers, i, k) = kind
      IN  /\ unwrap(items[i].member).is_signal => KindSets("Signals")
          /\ unwrap(items[i].member).is_slot => KindSets("Slots")
          /\ (\A k \in before : k < class_line - 1) => Flags(items[i]) = Flags(items_input[i])
          /\ (before /= {} /\ Max(before) = class_line - 1) =>
               LET kind == MarkerKindAt(items_input, headers, i, class_line - 1)
               IN  Flags(items[i]) = <<kind = "Signals", kind = "Slots">>

\* A signals or slots opener on the line immediately before the class line
\* is the last marker before a function of the class and set its flag,
\* while a marker of another kind two lines before the class line is cut.
C12_Witness ==
  /\ Classified
  /\ \E i \in ClassifiableFunctions(items_input) :
       LET class_line == ClassLineOf(items_input, unwrap(items_input[i].member).class_type)
           before == MarkerLinesBefore(items_input, headers, i)
       IN  /\ class_line - 2 \in before
           /\ Max(before) = class_line - 1
           /\ MarkerKindAt(items_input, headers, i, class_line - 1) = "Slots"
           /\ MarkerKindAt(items_input, headers, i, class_line - 2) = "Signals"
           /\ Flags(items[i]) = <<FALSE, TRUE>>


\* ------------------------------------------------------------ C13

\* The member functions of the database, whatever their source.
MemberFunctions(db_items) ==
  {i \in DOMAIN db_items :
     db_items[i].cpp_data = "Function" /\ is_some(db_items[i].member)}

\* C13: detect_signals_and_slots classifies only the functions of classes
\* that derive, directly or indirectly, from QObject: a function whose class
\* does not derive from it has neither is_signal nor is_slot set by the
\* call, also when its class is declared in a header that is scanned for
\* another class.
C13_OnlyQObjectClassesClassified ==
  detect_result /= "none" =>
    \A i \in MemberFunctions(items_input) :
      ~inherits(items_input, unwrap(items_input[i].member).class_type, "QObject") =>
        Flags(items[i]) = Flags(items_input[i])


\* ------------------------------------------------------------ C14

\* post_process has returned from a run on a database that an earlier run
\* of post_process had normalized; call_input is the method list this run
\* started with.
Rerun == last_call = "post_process" /\ pc = 0 /\ calls >= 2

\* The positions of the methods the latest call appended.
AppendedByCall == (Len(call_input) + 1)..Len(methods)

\* C14: post_process does not deduplicate across runs. A run on a database
\* an earlier run has normalized keeps every method and appends only
\* methods equal to methods already present; and for every method of the
\* database with k > 0 trailing default-valued parameters each of its k
\* reduced-arity overloads, already present before the run, is appended
\* once more.
C14_RerunAppendsDuplicates ==
  Rerun =>
    /\ IsPrefix(call_input, methods)
    /\ \A j \in AppendedByCall : \E i \in DOMAIN call_input : call_input[i] = methods[j]
    /\ \A i \in DOMAIN call_input :
         \A k \in DOMAIN ReducedOverloads(call_input[i]) :
           LET overload == ReducedOverloads(call_input[i])[k]
           IN  /\ Count(overload, call_input) >= 1
               /\ Count(overload, methods) > Count(overload, call_input)

\* The second run on a database whose parser gave a method with two
\* trailing default-valued parameters appended its overloads again.
C14_Witness ==
  /\ Rerun
  /\ calls = 2
  /\ \E i \in DOMAIN parsed.methods :
       /\ TrailingDefaults(parsed.methods[i]) = 2
       /\ \A k \in 1..2 :
            \E j \in AppendedByCall : methods[j] = ReducedOverloads(parsed.methods[i])[k]

\* ------------------------------------------------------------ C15

\* Opening or reading some selected header fails.
SomeSelectedHeaderFails ==
  \E f \in files_to_scan(items_input) : ~headers[f].readable

\* C15: detect_signals_and_slots reads every selected header before it
\* writes any flag. When opening or reading any selected header fails the
\* call returns an error and the database is exactly as before the call;
\* the call returns an error only then; and the items differ from those
\* before the call only when every selected header was read.
C15_ErrorLeavesDatabaseUnchanged ==
  detect_result /= "none" =>
    /\ detect_result = "Err" <=> SomeSelectedHeaderFails
    /\ detect_result = "Err" => items = items_input
    /\ items /= items_input => ~SomeSelectedHeaderFails

\* Two headers were selected; the one that holds a signals opener before a
\* parsed function of its class was readable and the other one was not:
\* the call returned an error and no flag was written.
C15_Witness ==
  /\ detect_result = "Err"
  /\ items = items_input
  /\ \E f, g \in files_to_scan(items_input) :
       /\ ~headers[f].readable
       /\ headers[g].readable
       /\ \E i \in ClassifiableFunctions(items_input) :
            /\ HeaderTextOf(items_input, headers, unwrap(items_input[i].member).class_type)
                 = headers[g].lines
            /\ DecidingMarkerKind(items_input, headers, i) = "Signals"

====
